---- MODULE Spec2Model ----
(***************************************************************************)
(* Model of src/web/sitemap.rs: the sitemap index, the per-letter sitemap  *)
(* (validation, blocking aggregation query, date floor, formatting), the   *)
(* about pages and the about/builds page.                                  *)
(*                                                                         *)
(* Strings that the code inspects character by character (the path segment *)
(* `letter`, crate names, the ILIKE pattern) are sequences of Unicode code *)
(* points.  Strings that are only compared or built (page names, template  *)
(* paths, formatted timestamps) are TLA+ strings.                          *)
(***************************************************************************)
EXTENDS Integers, Sequences, FiniteSets, TLC

VARIABLES crates, releases, config, reqs

vars == <<crates, releases, config, reqs>>

----------------------------------------------------------------------------
(* Bounds of the model *)

\* at most this many rows in the releases table
MaxReleases == 2

\* number of request slots that may be in flight together under ConcSpec
MaxConc == 2

----------------------------------------------------------------------------
(* Characters and strings *)

\* str::len(): the length in bytes of the UTF-8 encoding
Utf8Len(cp) == IF cp < 128 THEN 1 ELSE IF cp < 2048 THEN 2 ELSE IF cp < 65536 THEN 3 ELSE 4

RECURSIVE ByteLen(_)
ByteLen(s) == IF s = <<>> THEN 0 ELSE Utf8Len(Head(s)) + ByteLen(Tail(s))

\* char::is_ascii_lowercase(): 'a'..='z'
IsAsciiLowercase(cp) == cp >= 97 /\ cp <= 122

\* faulty variant: no case folding, LIKE for ILIKE
LowerNone(cp) == cp

\* case folding used by ILIKE, on the ASCII range
Lower(cp) == IF cp >= 65 /\ cp <= 90 THEN cp + 32 ELSE cp

\* format!("{}%", letter)
PatternOf(letter) == Append(letter, 37)

\* name ILIKE pattern: '%' (37) matches any run of characters, '_' (95) any
\* one character, every other character itself without regard to case
RECURSIVE ILike(_, _)
ILike(s, p) ==
    IF p = <<>> THEN s = <<>>
    ELSE IF Head(p) = 37 THEN ILike(s, Tail(p)) \/ (s # <<>> /\ ILike(Tail(s), p))
    ELSE IF Head(p) = 95 THEN s # <<>> /\ ILike(Tail(s), Tail(p))
    ELSE s # <<>> /\ Lower(Head(s)) = Lower(Head(p)) /\ ILike(Tail(s), Tail(p))

----------------------------------------------------------------------------
(* Timestamps: DateTime<Utc> as seconds since the epoch plus microseconds *)

Time(s, us) == [secs |-> s, micros |-> us]

TimeLE(a, b) == a.secs < b.secs \/ (a.secs = b.secs /\ a.micros <= b.micros)

\* Utc.ymd(2022, 8, 28).and_hms(0, 0, 0)
Floor == Time(1661644800, 0)

\* Ord::max(self, other)
TimeMax(a, b) == IF TimeLE(a, b) THEN b ELSE a

\* faulty variant: min taken for max
ApplyFloorMin(t) == IF TimeLE(t, Floor) THEN t ELSE Floor

\* DateTime::max(floor)
ApplyFloor(t) == TimeMax(t, Floor)

\* SQL MAX(release_time) over a non-empty group
MaxTime(S) == CHOOSE t \in S : \A u \in S : TimeLE(u, t)

Pad2(n) == IF n < 10 THEN "0" \o ToString(n) ELSE ToString(n)

Pad3(n) == IF n < 10 THEN "00" \o ToString(n) ELSE IF n < 100 THEN "0" \o ToString(n) ELSE ToString(n)

Pad4(n) == IF n < 1000 THEN "0" \o Pad3(n) ELSE ToString(n)

Pad6(n) == Pad3(n \div 1000) \o Pad3(n % 1000)

\* the proleptic Gregorian date of a day number counted from 1970-01-01
CivilFromDays(days) ==
    LET z   == days + 719468
        era == z \div 146097
        doe == z - era * 146097
        yoe == (doe - doe \div 1460 + doe \div 36524 - doe \div 146096) \div 365
        doy == doe - (365 * yoe + yoe \div 4 - yoe \div 100)
        mp  == (5 * doy + 2) \div 153
        d   == doy - (153 * mp + 2) \div 5 + 1
        m   == IF mp < 10 THEN mp + 3 ELSE mp - 9
        y   == yoe + era * 400 + (IF m <= 2 THEN 1 ELSE 0)
    IN  [year |-> y, month |-> m, day |-> d]

\* the fraction of a second: absent when zero, else 3 or 6 digits
Fraction(us) ==
    IF us = 0 THEN ""
    ELSE IF us % 1000 = 0 THEN "." \o Pad3(us \div 1000)
    ELSE "." \o Pad6(us)

\* .format("%+").to_string(): ISO 8601 / RFC 3339 with the UTC offset
FormatTime(t) ==
    LET date == CivilFromDays(t.secs \div 86400)
        sod  == t.secs % 86400
    IN  Pad4(date.year) \o "-" \o Pad2(date.month) \o "-" \o Pad2(date.day)
        \o "T" \o Pad2(sod \div 3600) \o ":" \o Pad2((sod % 3600) \div 60)
        \o ":" \o Pad2(sod % 60) \o Fraction(t.micros) \o "+00:00"

----------------------------------------------------------------------------
(* The database: tables crates(id, name) and releases(crate_id,            *)
(* target_name, release_time, rustdoc_status), and the config store        *)

\* crate names: "sc", "Sd", "ab", "1c"
CrateRows ==
    { [id |-> 1, name |-> <<115, 99>>], [id |-> 2, name |-> <<83, 100>>],
      [id |-> 3, name |-> <<97, 98>>],  [id |-> 4, name |-> <<49, 99>>] }

TargetNames == {"t1", "t2"}

\* 2020-01-01T00:00:00Z, as in tests::sitemap_max_age
T2020 == Time(1577836800, 0)

\* 2023-01-01T12:04:05.120Z
T2023 == Time(1672574645, 120000)

SuccessTimes == {T2020, Floor, T2023}

\* the (crate, target) pairs that have releases: "sc" is built for two
\* targets, the other crates for one
ReleaseKeys == { <<1, "t1">>, <<1, "t2">>, <<2, "t1">>, <<3, "t1">>, <<4, "t1">> }

\* a failed build is given the latest time, where it would show if counted
ReleaseRows ==
    { [crate_id |-> k[1], target_name |-> k[2], release_time |-> t, rustdoc_status |-> TRUE] :
      k \in ReleaseKeys, t \in SuccessTimes }
    \cup
    { [crate_id |-> k[1], target_name |-> k[2], release_time |-> T2023, rustdoc_status |-> FALSE] :
      k \in ReleaseKeys }

\* Option<String> values of ConfigName::RustcVersion
ConfigValues == {"None", "rustc 1.65.0"}

\* FROM crates INNER JOIN releases ON releases.crate_id = crates.id
Joined(cs, rs) ==
    { [name |-> cr[1].name, target_name |-> cr[2].target_name,
       release_time |-> cr[2].release_time, rustdoc_status |-> cr[2].rustdoc_status] :
      cr \in { p \in cs \X rs : p[2].crate_id = p[1].id } }

\* faulty variant: the rustdoc_status condition left out
MatchingAnyStatus(cs, rs, pattern) ==
    { j \in Joined(cs, rs) : ILike(j.name, pattern) }

\* WHERE rustdoc_status = true AND crates.name ILIKE $1
Matching(cs, rs, pattern) ==
    { j \in Joined(cs, rs) : j.rustdoc_status = TRUE /\ ILike(j.name, pattern) }

\* faulty variant: no GROUP BY, one row per release
AggregatePerRelease(cs, rs, pattern) ==
    { [name |-> j.name, target_name |-> j.target_name, release_time |-> j.release_time] :
      j \in Matching(cs, rs, pattern) }

\* GROUP BY crates.name, releases.target_name with MAX(releases.release_time)
Aggregate(cs, rs, pattern) ==
    LET rows == Matching(cs, rs, pattern)
        keys == { <<j.name, j.target_name>> : j \in rows }
    IN  { [name |-> k[1], target_name |-> k[2],
           release_time |-> MaxTime({ j.release_time : j \in
                              { x \in rows : x.name = k[1] /\ x.target_name = k[2] } })] :
          k \in keys }

\* the orders in which the query may return a set of rows
Orderings(S) ==
    { s \in [1..Cardinality(S) -> S] : \A i, j \in 1..Cardinality(S) : s[i] = s[j] => i = j }

\* the closure given to map(): one SitemapRow per query row
MakeRow(row) ==
    [crate_name |-> row.name, target_name |-> row.target_name,
     last_modified |-> FormatTime(ApplyFloor(row.release_time))]

MapRows(rows) == [i \in 1..Len(rows) |-> MakeRow(rows[i])]

----------------------------------------------------------------------------
(* Requests *)

\* path segments tried as {letter}: "s", "a", "1", "aa", "A", "", "S",
\* e-acute (two bytes), "_" and "%" (the ILIKE wildcards)
RawSegments ==
    { <<115>>, <<97>>, <<49>>, <<97, 97>>, <<65>>, <<>>, <<83>>, <<233>>, <<95>>, <<37>> }

\* last path segments tried on the about route
AboutNames ==
    { "about", "index", "badges", "metadata", "redirections", "download",
      "builds", "Index", "" }

NoResult == [tag |-> "none"]

NoResp == [tag |-> "none"]

\* a free request slot
Idle ==
    [kind |-> "idle", pc |-> "idle", letter |-> <<>>, name |-> "",
     spawned |-> 0, gets |-> 0, queries |-> <<>>, rows |-> <<>>,
     result |-> NoResult, resp |-> NoResp]

\* faulty variant: the half-open range 'a'..'z'
LettersHalfOpen == [i \in 1..25 |-> 96 + i]

\* ('a'..='z').collect()
Letters == [i \in 1..26 |-> 96 + i]

\* faulty variant: the length check left out
ValidLetterNoLength(letter) ==
    IF letter # <<>> THEN IsAsciiLowercase(Head(letter)) ELSE TRUE

\* lines 57-63: letter.len() == 1 and its one char is an ASCII lowercase letter
ValidLetter(letter) ==
    IF ByteLen(letter) # 1 THEN FALSE
    ELSE IF letter # <<>> THEN IsAsciiLowercase(Head(letter))
    ELSE TRUE

\* AxumNope::ResourceNotFound
ResourceNotFound == [tag |-> "AxumNope", nope |-> "ResourceNotFound"]

\* `?` on an anyhow::Error in a handler returning AxumNope
FromAnyhow(err) == [tag |-> "AxumNope", nope |-> "InternalError"]

\* faulty variant: a failed worker answered with an empty document
SitemapOutcomeSwallow(result) ==
    IF result.tag = "Ok" THEN [tag |-> "SitemapXml", releases |-> result.value]
    ELSE [tag |-> "SitemapXml", releases |-> <<>>]

\* .await.context("failed to join thread")?? followed by Ok(SitemapXml { releases })
SitemapOutcome(result) ==
    IF result.tag = "Ok" THEN [tag |-> "SitemapXml", releases |-> result.value]
    ELSE IF result.tag = "JoinError" THEN FromAnyhow("failed to join thread")
    ELSE FromAnyhow(result.error)

\* .await.context("failed to join thread")?? followed by Ok(AboutBuilds { .. })
BuildsOutcome(result) ==
    IF result.tag = "Ok"
    THEN [tag |-> "AboutBuilds", rustc_version |-> result.value,
          limits |-> "Limits::default()", active_tab |-> "builds"]
    ELSE IF result.tag = "JoinError" THEN FromAnyhow("failed to join thread")
    ELSE FromAnyhow(result.error)

\* faulty variant: "about" not treated as "index"
AboutOutcomeNoAlias(name) ==
    IF name \in {"index", "badges", "metadata", "redirections", "download"}
    THEN [tag |-> "AboutPage", template |-> "core/about/" \o name \o ".html",
          active_tab |-> name]
    ELSE [tag |-> "ErrorPage", title |-> "The requested page does not exist",
          message |-> "This /about page does not exist.", status |-> "NotFound"]

\* the match in about_handler
AboutOutcome(name) ==
    IF name \in {"about", "index"}
    THEN [tag |-> "AboutPage", template |-> "core/about/" \o "index" \o ".html",
          active_tab |-> "index"]
    ELSE IF name \in {"badges", "metadata", "redirections", "download"}
    THEN [tag |-> "AboutPage", template |-> "core/about/" \o name \o ".html",
          active_tab |-> name]
    ELSE [tag |-> "ErrorPage", title |-> "The requested page does not exist",
          message |-> "This /about page does not exist. Perhaps you are interested in <a href=\"https://github.com/rust-lang/docs.rs/tree/master/templates/core/about\">creating</a> it?",
          status |-> "NotFound"]

\* the request slots of the model; a state uses DOMAIN reqs of them
Slots == 1..MaxConc

Set(r, rec) == reqs' = [reqs EXCEPT ![r] = rec]

DbUnchanged == UNCHANGED <<crates, releases, config>>

----------------------------------------------------------------------------
(* Actions *)

\* sitemapindex_handler
SitemapIndex(r) ==
    /\ r \in DOMAIN reqs
    /\ reqs[r].pc = "idle"
    /\ Set(r, [Idle EXCEPT !.kind = "index", !.pc = "done",
                           !.resp = [tag |-> "SitemapIndexXml", sitemaps |-> Letters]])
    /\ DbUnchanged

\* faulty variant: the worker is spawned and takes its connection before the
\* segment is validated
SitemapStartValidateLate(r, letter) ==
    /\ r \in DOMAIN reqs
    /\ reqs[r].pc = "idle"
    /\ IF ValidLetter(letter)
       THEN reqs' = [reqs EXCEPT ![r] = [Idle EXCEPT !.kind = "sitemap", !.letter = letter,
                                                    !.pc = "spawned", !.spawned = 1]]
       ELSE reqs' = [reqs EXCEPT ![r] = [Idle EXCEPT !.kind = "sitemap", !.letter = letter,
                                                    !.spawned = 1, !.gets = 1,
                                                    !.pc = "done", !.resp = ResourceNotFound]]
    /\ UNCHANGED <<crates, releases, config>>

\* sitemap_handler up to the spawn_blocking call
SitemapStart(r, letter) ==
    /\ r \in DOMAIN reqs
    /\ reqs[r].pc = "idle"
    /\ IF ValidLetter(letter)
       THEN Set(r, [Idle EXCEPT !.kind = "sitemap", !.letter = letter,
                                !.pc = "spawned", !.spawned = 1])
       ELSE Set(r, [Idle EXCEPT !.kind = "sitemap", !.letter = letter,
                                !.pc = "done", !.resp = ResourceNotFound])
    /\ DbUnchanged

\* faulty variant: one connection shared by all requests, taken only when free
SitemapPoolGetSerialized(r) ==
    /\ r \in DOMAIN reqs
    /\ reqs[r].kind = "sitemap" /\ reqs[r].pc = "spawned"
    /\ \A o \in DOMAIN reqs : reqs[o].pc # "connected"
    /\ \/ reqs' = [reqs EXCEPT ![r] = [reqs[r] EXCEPT !.pc = "connected", !.gets = @ + 1]]
       \/ reqs' = [reqs EXCEPT ![r] = [reqs[r] EXCEPT !.pc = "finished", !.gets = @ + 1,
                                         !.result = [tag |-> "Err", error |-> "pool"]]]
    /\ UNCHANGED <<crates, releases, config>>

\* worker: pool.get()?
SitemapPoolGet(r) ==
    /\ r \in DOMAIN reqs
    /\ reqs[r].kind = "sitemap" /\ reqs[r].pc = "spawned"
    /\ \/ Set(r, [reqs[r] EXCEPT !.pc = "connected", !.gets = @ + 1])
       \/ Set(r, [reqs[r] EXCEPT !.pc = "finished", !.gets = @ + 1,
                                 !.result = [tag |-> "Err", error |-> "pool"]])
    /\ DbUnchanged

\* worker: conn.query(..)? and the mapping of its rows
SitemapQuery(r) ==
    /\ r \in DOMAIN reqs
    /\ reqs[r].kind = "sitemap" /\ reqs[r].pc = "connected"
    /\ LET pattern == PatternOf(reqs[r].letter)
           issued  == [reqs[r] EXCEPT !.pc = "finished", !.queries = Append(@, pattern)]
       IN  \/ \E rows \in Orderings(Aggregate(crates, releases, pattern)) :
                Set(r, [issued EXCEPT !.rows = rows,
                                      !.result = [tag |-> "Ok", value |-> MapRows(rows)]])
           \/ Set(r, [issued EXCEPT !.result = [tag |-> "Err", error |-> "query"]])
           \* row.get() panics on a column it cannot convert
           \/ Set(r, [issued EXCEPT !.result = [tag |-> "JoinError"]])
    /\ DbUnchanged

\* handler: the join, `??`, and the response
SitemapJoin(r) ==
    /\ r \in DOMAIN reqs
    /\ reqs[r].kind = "sitemap" /\ reqs[r].pc = "finished"
    /\ Set(r, [reqs[r] EXCEPT !.pc = "done", !.resp = SitemapOutcome(reqs[r].result)])
    /\ DbUnchanged

\* about_handler
About(r, name) ==
    /\ r \in DOMAIN reqs
    /\ reqs[r].pc = "idle"
    /\ Set(r, [Idle EXCEPT !.kind = "about", !.name = name, !.pc = "done",
                           !.resp = AboutOutcome(name)])
    /\ DbUnchanged

\* about_builds_handler up to the spawn_blocking call
BuildsStart(r) ==
    /\ r \in DOMAIN reqs
    /\ reqs[r].pc = "idle"
    /\ Set(r, [Idle EXCEPT !.kind = "about_builds", !.pc = "spawned", !.spawned = 1])
    /\ DbUnchanged

\* worker: pool.get()?
BuildsPoolGet(r) ==
    /\ r \in DOMAIN reqs
    /\ reqs[r].kind = "about_builds" /\ reqs[r].pc = "spawned"
    /\ \/ Set(r, [reqs[r] EXCEPT !.pc = "connected", !.gets = @ + 1])
       \/ Set(r, [reqs[r] EXCEPT !.pc = "finished", !.gets = @ + 1,
                                 !.result = [tag |-> "Err", error |-> "pool"]])
    /\ DbUnchanged

\* worker: get_config::<String>(&mut conn, ConfigName::RustcVersion)
BuildsGetConfig(r) ==
    /\ r \in DOMAIN reqs
    /\ reqs[r].kind = "about_builds" /\ reqs[r].pc = "connected"
    /\ \/ Set(r, [reqs[r] EXCEPT !.pc = "finished",
                                 !.result = [tag |-> "Ok", value |-> config]])
       \/ Set(r, [reqs[r] EXCEPT !.pc = "finished",
                                 !.result = [tag |-> "Err", error |-> "config"]])
    /\ DbUnchanged

\* handler: the join, `??`, and the response
BuildsJoin(r) ==
    /\ r \in DOMAIN reqs
    /\ reqs[r].kind = "about_builds" /\ reqs[r].pc = "finished"
    /\ Set(r, [reqs[r] EXCEPT !.pc = "done", !.resp = BuildsOutcome(reqs[r].result)])
    /\ DbUnchanged

\* the response is sent and the request's state dropped
Finish(r) ==
    /\ r \in DOMAIN reqs
    /\ reqs[r].pc = "done"
    /\ Set(r, Idle)
    /\ DbUnchanged

\* the steps of request r after the handler was entered
Step(r) ==
    \/ SitemapPoolGet(r) \/ SitemapQuery(r) \/ SitemapJoin(r)
    \/ BuildsPoolGet(r) \/ BuildsGetConfig(r) \/ BuildsJoin(r)

Next ==
    \E r \in Slots :
        \/ SitemapIndex(r)
        \/ \E letter \in RawSegments : SitemapStart(r, letter)
        \/ SitemapPoolGet(r)
        \/ SitemapQuery(r)
        \/ SitemapJoin(r)
        \/ \E name \in AboutNames : About(r, name)
        \/ BuildsStart(r)
        \/ BuildsPoolGet(r)
        \/ BuildsGetConfig(r)
        \/ BuildsJoin(r)
        \/ Finish(r)

\* the subsets of S of at most k elements
RECURSIVE SubsetsUpTo(_, _)
SubsetsUpTo(S, k) ==
    IF k = 0 THEN {{}}
    ELSE LET smaller == SubsetsUpTo(S, k - 1)
         IN  smaller \cup { p \cup {x} : p \in smaller, x \in S }

\* any database content of at most MaxReleases releases
DbInit ==
    /\ crates = CrateRows
    /\ releases \in SubsetsUpTo(ReleaseRows, MaxReleases)
    /\ config \in ConfigValues

\* one request at a time, over any database content
Init == DbInit /\ reqs = [r \in 1..1 |-> Idle]

Spec == Init /\ [][Next]_vars

\* the database of the runs with concurrent requests: "sc" built twice for
\* t1, "Sd" and "ab" built, and a failed build of "sc" for t2
ConcReleases ==
    { [crate_id |-> 1, target_name |-> "t1", release_time |-> T2020, rustdoc_status |-> TRUE],
      [crate_id |-> 1, target_name |-> "t1", release_time |-> Floor, rustdoc_status |-> TRUE],
      [crate_id |-> 2, target_name |-> "t1", release_time |-> T2023, rustdoc_status |-> TRUE],
      [crate_id |-> 3, target_name |-> "t1", release_time |-> T2023, rustdoc_status |-> TRUE],
      [crate_id |-> 1, target_name |-> "t2", release_time |-> T2023, rustdoc_status |-> FALSE] }

\* MaxConc requests in flight together
ConcInit ==
    /\ crates = CrateRows
    /\ releases = ConcReleases
    /\ config = "rustc 1.65.0"
    /\ reqs = [r \in 1..MaxConc |-> Idle]

\* segments of the concurrent runs: "s", "a", "1"
ConcSegments == { <<115>>, <<97>>, <<49>> }

\* about names of the concurrent runs
ConcAboutNames == { "about", "builds" }

\* Next for the concurrent runs: request 1 is any request over the smaller
\* input sets; the requests beside it are the ones that block on the
\* database, the sitemap of 'a' and the about/builds page
ConcNext ==
    \E r \in Slots :
        \/ r = 1 /\ SitemapIndex(r)
        \/ \E letter \in ConcSegments : (r = 1 \/ letter = <<97>>) /\ SitemapStart(r, letter)
        \/ SitemapPoolGet(r)
        \/ SitemapQuery(r)
        \/ SitemapJoin(r)
        \/ \E name \in ConcAboutNames : r = 1 /\ About(r, name)
        \/ BuildsStart(r)
        \/ BuildsPoolGet(r)
        \/ BuildsGetConfig(r)
        \/ BuildsJoin(r)
        \/ Finish(r)

\* the runtime keeps running request 1 (its handler and its blocking worker,
\* whose database calls return or fail); the other requests may stall anywhere
ConcSpec == ConcInit /\ [][ConcNext]_vars /\ WF_vars(Step(1))

----------------------------------------------------------------------------
(* Vocabulary of the properties, stated without the handler's operators *)

\* 'a' .. 'z' written out
AToZ ==
    << 97, 98, 99, 100, 101, 102, 103, 104, 105, 106, 107, 108, 109,
       110, 111, 112, 113, 114, 115, 116, 117, 118, 119, 120, 121, 122 >>

\* a single ASCII lowercase letter
IsShardKey(seg) == Len(seg) = 1 /\ \E i \in 1..26 : seg[1] = AToZ[i]

\* the first character of a name, folded to lower case (0 for no character)
FirstLower(name) ==
    IF name = <<>> THEN 0
    ELSE IF \E i \in 1..26 : name[1] = AToZ[i] - 32 THEN name[1] + 32
    ELSE name[1]

\* the successfully built releases of the database, with their crate's name
Built ==
    { [name |-> c.name, target_name |-> rel.target_name, release_time |-> rel.release_time] :
      <<c, rel>> \in { p \in crates \X releases :
                         p[2].crate_id = p[1].id /\ p[2].rustdoc_status } }

\* request r is a sitemap request that has been answered
SitemapDone(r) == reqs[r].kind = "sitemap" /\ reqs[r].pc = "done"

\* request r has been answered with a sitemap document
HasDocument(r) == SitemapDone(r) /\ reqs[r].resp.tag = "SitemapXml"

InternalError == [tag |-> "AxumNope", nope |-> "InternalError"]

Indices(r) == 1..Len(reqs[r].resp.releases)

----------------------------------------------------------------------------
(* C1 *)

\* C1: a sitemap request ends not-found exactly when its segment is not a
\* single ASCII lowercase letter; for a letter it ends with a document
\* whenever the blocking work did not fail, whatever the database holds.
C1_NotFoundIffInvalid ==
    \A r \in DOMAIN reqs :
        SitemapDone(r) =>
            /\ (reqs[r].resp = ResourceNotFound) <=> ~IsShardKey(reqs[r].letter)
            /\ (IsShardKey(reqs[r].letter) /\ reqs[r].result.tag = "Ok")
                   => reqs[r].resp.tag = "SitemapXml"

\* a letter answered with an (empty) document over an empty database
C1_Witness ==
    \E r \in DOMAIN reqs :
        /\ releases = {}
        /\ HasDocument(r) /\ reqs[r].letter = <<97>>
        /\ reqs[r].resp.releases = <<>>

----------------------------------------------------------------------------
(* C2 *)

\* the text chrono must produce for the timestamps of the model once the
\* floor is applied
C2_Expected(t) ==
    IF t.secs < 1661644800 THEN "2022-08-28T00:00:00+00:00"
    ELSE IF t = Time(1661644800, 0) THEN "2022-08-28T00:00:00+00:00"
    ELSE IF t = Time(1672574645, 120000) THEN "2023-01-01T12:04:05.120+00:00"
    ELSE "?"

\* C2: every row of a shard document reports max(release time, floor): a
\* time before 2022-08-28T00:00:00Z is reported as exactly the floor, a
\* later one unchanged, and no row reports an instant before the floor.
C2_FloorApplied ==
    \A r \in DOMAIN reqs :
        HasDocument(r) =>
            \A i \in Indices(r) :
                /\ reqs[r].resp.releases[i].last_modified
                       = C2_Expected(reqs[r].rows[i].release_time)
                /\ reqs[r].resp.releases[i].last_modified # "2020-01-01T00:00:00+00:00"

\* a release of 2020-01-01 reported as the floor
C2_Witness ==
    \E r \in DOMAIN reqs :
        /\ HasDocument(r)
        /\ \E i \in Indices(r) :
             /\ reqs[r].rows[i].release_time = T2020
             /\ reqs[r].resp.releases[i].last_modified = "2022-08-28T00:00:00+00:00"

----------------------------------------------------------------------------
(* C3 *)

\* C3: a shard document has a row for a package only if the package has a
\* successfully built release and its name starts with the shard's letter
\* without regard to case; so no package is in two shards' documents and a
\* package whose builds all failed is in none.  Stated of every answered
\* request and of the query for each of the 26 letters.
C3_OnlyBuiltOfThatLetter ==
    /\ \A r \in DOMAIN reqs :
         HasDocument(r) =>
             \A i \in Indices(r) :
                 /\ \E b \in Built : b.name = reqs[r].resp.releases[i].crate_name
                 /\ FirstLower(reqs[r].resp.releases[i].crate_name) = reqs[r].letter[1]
    /\ \A k \in 1..26 :
         \A row \in Aggregate(crates, releases, PatternOf(<<AToZ[k]>>)) :
             /\ \E b \in Built : b.name = row.name
             /\ FirstLower(row.name) = AToZ[k]

\* the document of 's' lists "sc", built, and not "Sd", whose only build failed
C3_Witness ==
    \E r \in DOMAIN reqs :
        /\ HasDocument(r) /\ reqs[r].letter = <<115>>
        /\ \E rel \in releases : rel.crate_id = 2 /\ ~rel.rustdoc_status
        /\ \E i \in Indices(r) : reqs[r].resp.releases[i].crate_name = <<115, 99>>
        /\ \A i \in Indices(r) : reqs[r].resp.releases[i].crate_name # <<83, 100>>

----------------------------------------------------------------------------
(* C4 *)

\* C4: the sitemap index is always exactly 'a' .. 'z' in ascending order,
\* whatever the database holds and whatever was requested before, and the
\* handler spawns no worker, takes no connection and issues no query.
C4_IndexFixed ==
    \A r \in DOMAIN reqs :
        (reqs[r].kind = "index" /\ reqs[r].pc = "done") =>
            /\ reqs[r].resp = [tag |-> "SitemapIndexXml", sitemaps |-> AToZ]
            /\ Len(reqs[r].resp.sitemaps) = 26
            /\ reqs[r].spawned = 0 /\ reqs[r].gets = 0 /\ reqs[r].queries = <<>>

\* the index answered over a database that holds releases
C4_Witness ==
    \E r \in DOMAIN reqs :
        /\ reqs[r].kind = "index" /\ reqs[r].pc = "done"
        /\ Cardinality(releases) = MaxReleases

----------------------------------------------------------------------------
(* C5 *)

AboutDone(r) == reqs[r].kind = "about" /\ reqs[r].pc = "done"

\* the template a known about name resolves to, spelled out
C5_Template(name) ==
    CASE name = "about" -> "core/about/index.html"
      [] name = "index" -> "core/about/index.html"
      [] name = "badges" -> "core/about/badges.html"
      [] name = "metadata" -> "core/about/metadata.html"
      [] name = "redirections" -> "core/about/redirections.html"
      [] name = "download" -> "core/about/download.html"
      [] OTHER -> "none"

\* the resolution of the about names, with the error page's title a parameter
C5_Resolution(title) ==
    \A r \in DOMAIN reqs :
        AboutDone(r) =>
            LET name == reqs[r].name
                resp == reqs[r].resp
            IN  IF name \in {"about", "index"}
                THEN /\ resp.tag = "AboutPage"
                     /\ resp.template = C5_Template(name)
                     /\ resp.active_tab = "index"
                ELSE IF name \in {"badges", "metadata", "redirections", "download"}
                THEN /\ resp.tag = "AboutPage"
                     /\ resp.template = C5_Template(name)
                     /\ resp.active_tab = name
                ELSE /\ resp.tag = "ErrorPage"
                     /\ resp.title = title
                     /\ resp.message # ""
                     /\ resp.status = "NotFound"
                     /\ "template" \notin DOMAIN resp

\* C5 as stated: "about" and "index" resolve to the index template, the four
\* other known names to their own template with the active tab equal to the
\* name, and every other name to the not-found error page whose title is
\* "the requested page does not exist".
C5_AsStated == C5_Resolution("the requested page does not exist")

\* C5 as amended: the same resolution, the error page's title being
\* "The requested page does not exist", with a capital T.
C5_AboutResolution == C5_Resolution("The requested page does not exist")

\* "builds" asked of about_handler gets the error page
C5_Witness ==
    \E r \in DOMAIN reqs :
        AboutDone(r) /\ reqs[r].name = "builds" /\ reqs[r].resp.tag = "ErrorPage"

----------------------------------------------------------------------------
(* C6 *)

\* C6: validation precedes all I/O: a request whose segment is not a shard
\* key never has a worker spawned, a connection taken or a query issued, and
\* is answered not-found; each query issued carries as pattern one
\* lowercase letter followed by '%'.
C6_ValidationBeforeIO ==
    \A r \in DOMAIN reqs :
        reqs[r].kind = "sitemap" =>
            /\ ~IsShardKey(reqs[r].letter) =>
                   /\ reqs[r].spawned = 0 /\ reqs[r].gets = 0 /\ reqs[r].queries = <<>>
                   /\ reqs[r].pc = "done" /\ reqs[r].resp = ResourceNotFound
            /\ (reqs[r].spawned > 0 \/ reqs[r].gets > 0 \/ reqs[r].queries # <<>>)
                   => IsShardKey(reqs[r].letter)
            /\ \A i \in 1..Len(reqs[r].queries) :
                   \E k \in 1..26 : reqs[r].queries[i] = <<AToZ[k], 37>>

\* the wildcard "%" as segment is refused before anything is spawned
C6_Witness ==
    \E r \in DOMAIN reqs :
        /\ SitemapDone(r) /\ reqs[r].letter = <<37>>
        /\ reqs[r].resp = ResourceNotFound /\ reqs[r].spawned = 0

----------------------------------------------------------------------------
(* C8 *)

\* the names of the packages a shard's query returns
ShardNames(k) == { row.name : row \in Aggregate(crates, releases, PatternOf(<<k>>)) }

\* C8 as stated: once the index is answered, every package with a successful
\* build is in the document of one of the shards the index lists, whatever
\* its name.
C8_AsStated ==
    \A r \in DOMAIN reqs :
        (reqs[r].kind = "index" /\ reqs[r].pc = "done") =>
            \A b \in Built :
                \E i \in 1..Len(reqs[r].resp.sitemaps) :
                    b.name \in ShardNames(reqs[r].resp.sitemaps[i])

IsAsciiLetter(cp) == \E i \in 1..26 : cp = AToZ[i] \/ cp = AToZ[i] - 32

\* C8 as amended: every package with a successful build whose name begins
\* with an ASCII letter, of either case, is in the document of the shard of
\* that letter in lower case, which the index lists.
C8_LetterPackagesCovered ==
    /\ \A r \in DOMAIN reqs :
         (reqs[r].kind = "index" /\ reqs[r].pc = "done") =>
             \A b \in Built :
                 IsAsciiLetter(b.name[1]) =>
                     \E i \in 1..Len(reqs[r].resp.sitemaps) :
                         /\ reqs[r].resp.sitemaps[i] = FirstLower(b.name)
                         /\ b.name \in ShardNames(reqs[r].resp.sitemaps[i])
    /\ \A r \in DOMAIN reqs :
         HasDocument(r) =>
             \A b \in Built :
                 FirstLower(b.name) = reqs[r].letter[1] =>
                     \E i \in Indices(r) : reqs[r].resp.releases[i].crate_name = b.name

\* the document of 's' lists the built package "Sd"
C8_Witness ==
    \E r \in DOMAIN reqs :
        /\ HasDocument(r) /\ reqs[r].letter = <<115>>
        /\ \E i \in Indices(r) : reqs[r].resp.releases[i].crate_name = <<83, 100>>

----------------------------------------------------------------------------
(* C9 *)

\* the (package, target) pairs with a built release in the shard of letter k
BuiltPairs(k) ==
    { <<b.name, b.target_name>> : b \in { x \in Built : FirstLower(x.name) = k } }

\* C9: a shard document has exactly one row for each (package, target) pair
\* with a successfully built release of that shard and no other row, and
\* the row's time before the floor is the latest release time among the
\* pair's successfully built releases.
C9_OneRowPerPair ==
    \A r \in DOMAIN reqs :
        HasDocument(r) =>
            LET doc   == reqs[r].resp.releases
                pairs == BuiltPairs(reqs[r].letter[1])
            IN  /\ Len(doc) = Cardinality(pairs)
                /\ Len(reqs[r].rows) = Len(doc)
                /\ \A i \in Indices(r) :
                     /\ <<doc[i].crate_name, doc[i].target_name>> \in pairs
                     /\ reqs[r].rows[i].name = doc[i].crate_name
                     /\ reqs[r].rows[i].target_name = doc[i].target_name
                     /\ \A j \in Indices(r) :
                          (doc[j].crate_name = doc[i].crate_name
                           /\ doc[j].target_name = doc[i].target_name) => j = i
                     /\ \E b \in Built :
                          /\ b.name = doc[i].crate_name /\ b.target_name = doc[i].target_name
                          /\ b.release_time = reqs[r].rows[i].release_time
                     /\ \A b \in Built :
                          (b.name = doc[i].crate_name /\ b.target_name = doc[i].target_name)
                              => TimeLE(b.release_time, reqs[r].rows[i].release_time)

\* two built releases of one pair give one row carrying the later time
C9_Witness ==
    \E r \in DOMAIN reqs :
        /\ HasDocument(r) /\ reqs[r].letter = <<115>>
        /\ Cardinality({ b \in Built : b.name = <<115, 99>> /\ b.target_name = "t1" }) = 2
        /\ Len(reqs[r].resp.releases) = 1
        /\ reqs[r].rows[1].release_time = T2023

----------------------------------------------------------------------------
(* C7 *)

\* what holds of a sitemap request at every moment: one connection and one
\* query at most, and once answered for a shard key, a failed worker gave
\* InternalError and a document is the whole result of a worker that did
\* not fail
C7_FailureIsInternalError ==
    \A r \in DOMAIN reqs :
        reqs[r].kind = "sitemap" =>
            /\ Len(reqs[r].queries) <= 1 /\ reqs[r].gets <= 1
            /\ (reqs[r].pc = "done" /\ IsShardKey(reqs[r].letter)) =>
                   IF reqs[r].result.tag = "Ok"
                   THEN /\ reqs[r].resp.tag = "SitemapXml"
                        /\ Len(reqs[r].resp.releases)
                               = Cardinality(BuiltPairs(reqs[r].letter[1]))
                   ELSE /\ reqs[r].result.tag \in {"Err", "JoinError"}
                        /\ reqs[r].resp = InternalError
                        /\ reqs[r].resp # ResourceNotFound

\* C7: for a valid shard key, every failure of the blocking work (taking a
\* connection, the query, the worker not joining) ends the request with
\* InternalError, never with not-found nor with a document; the query is
\* issued at most once; and a request whose worker was spawned is always
\* answered, with a document or an error.
C7_FailuresSurface ==
    /\ []C7_FailureIsInternalError
    /\ (reqs[1].kind = "sitemap" /\ reqs[1].pc = "spawned")
           ~> (reqs[1].pc = "done" /\ reqs[1].resp.tag \in {"SitemapXml", "AxumNope"})

\* a failed query answered with InternalError
C7_Witness ==
    /\ SitemapDone(1) /\ reqs[1].letter = <<115>>
    /\ reqs[1].result = [tag |-> "Err", error |-> "query"]
    /\ reqs[1].queries = << <<115, 37>> >>
    /\ reqs[1].resp = InternalError

----------------------------------------------------------------------------
(* C10 *)

InFlight(r) == reqs[r].pc \in {"spawned", "connected", "finished"}

\* every request can take its next step whatever the others are doing, and
\* an answer is determined by the request's own input, the outcome of its
\* own worker and the database
C10_Independent ==
    \A r \in DOMAIN reqs :
        /\ reqs[r].pc = "idle" => ENABLED SitemapIndex(r)
        /\ InFlight(r) => ENABLED Step(r)
        /\ reqs[r].pc = "done" =>
             CASE reqs[r].kind = "index" ->
                    reqs[r].resp = [tag |-> "SitemapIndexXml", sitemaps |-> AToZ]
               [] reqs[r].kind = "about" ->
                    reqs[r].resp = AboutOutcome(reqs[r].name)
               [] reqs[r].kind = "about_builds" ->
                    IF reqs[r].result.tag = "Ok"
                    THEN reqs[r].resp.tag = "AboutBuilds"
                         /\ reqs[r].resp.rustc_version = config
                    ELSE reqs[r].resp = InternalError
               [] reqs[r].kind = "sitemap" ->
                    IF ~IsShardKey(reqs[r].letter) THEN reqs[r].resp = ResourceNotFound
                    ELSE IF reqs[r].result.tag = "Ok"
                    THEN /\ reqs[r].resp.tag = "SitemapXml"
                         /\ { reqs[r].resp.releases[i] : i \in Indices(r) }
                              = { MakeRow(row) : row \in
                                    Aggregate(crates, releases, PatternOf(reqs[r].letter)) }
                    ELSE reqs[r].resp = InternalError

====
